---- MODULE Spec2Model ----
(***************************************************************************)
(* ZoomRatioMapper (common/hal/utils/zoom_ratio_mapper.cc): the mapping of *)
(* region metadata between the zoomed coordinate space of the framework    *)
(* and the active-array coordinate space of the sensor.                    *)
(*                                                                         *)
(* A float is modelled as an exact fraction <<num, den>> with den > 0.     *)
(* Every zoom ratio the model draws is a power of two and every            *)
(* coordinate is far below 2^24, so each float32 operation of the source   *)
(* (a division by the ratio, a product with 0.5f, a sum of such terms) is  *)
(* exact and the fraction is the value the float holds.                    *)
(*                                                                         *)
(* A metadata entry is a sequence: <<>> when Get(tag) does not return OK,  *)
(* <<data>> when it does; data is then the entry's payload (a scalar, the  *)
(* int32 array of a crop region, or a sequence of fixed-width tuples).     *)
(* A pointer is a sequence too: <<>> is nullptr, <<obj>> points to obj.    *)
(***************************************************************************)
EXTENDS Integers, Sequences, FiniteSets, TLC

\* Largest left/top coordinate and largest width/height of the rectangles
\* the geometry specification draws.
MaxCoord == 3
MaxSize == 5

VARIABLES
  is_zoom_ratio_supported_,
  active_array_dimension_,
  physical_cam_active_array_dimension_,
  zoom_ratio_range_,
  bundle,       \* the CaptureRequest / CaptureResult the caller holds
  original,     \* history: the bundle as first built
  submitted,    \* history: the bundle as handed to the last Update call
  ops,          \* history: the Update calls made on the bundle, in order
  calls         \* history: the Update*Region/Face* calls of the last Update call

vars == <<is_zoom_ratio_supported_, active_array_dimension_,
          physical_cam_active_array_dimension_, zoom_ratio_range_,
          bundle, original, submitted, ops, calls>>

mapper_vars == <<is_zoom_ratio_supported_, active_array_dimension_,
                 physical_cam_active_array_dimension_, zoom_ratio_range_>>

---------------------------------------------------------------------------
\* float arithmetic on exact fractions

FInt(i) == <<i, 1>>
FOne == <<1, 1>>
FHalf == <<1, 2>>
FAdd(a, b) == <<a[1] * b[2] + b[1] * a[2], a[2] * b[2]>>
FSub(a, b) == <<a[1] * b[2] - b[1] * a[2], a[2] * b[2]>>
FMul(a, b) == <<a[1] * b[1], a[2] * b[2]>>
\* the divisor is a zoom ratio, which is positive
FDiv(a, b) == <<a[1] * b[2], a[2] * b[1]>>
FLess(a, b) == a[1] * b[2] < b[1] * a[2]

\* std::round: to the nearest integer, halfway cases away from zero
StdRound(a) ==
  IF a[1] >= 0
    THEN (2 * a[1] + a[2]) \div (2 * a[2])
    ELSE -((2 * (-a[1]) + a[2]) \div (2 * a[2]))

Max(a, b) == IF a >= b THEN a ELSE b

---------------------------------------------------------------------------
\* geometry

\* utils::CorrectRegionBoundary: the position is clamped to be non-negative,
\* then the size is shrunk when the region still leaves the bound.
CorrectRegionBoundary(rect, bound_w, bound_h) ==
  LET left == Max(rect[1], 0)
      top == Max(rect[2], 0)
      width == IF left + rect[3] > bound_w THEN bound_w - left ELSE rect[3]
      height == IF top + rect[4] > bound_h THEN bound_h - top ELSE rect[4]
  IN <<left, top, width, height>>

\* ConvertPosition with the offset 0.5f * size / zoom_ratio
ConvertPositionOffsetSlip(zoom_ratio, position, size) ==
  StdRound(FAdd(FDiv(FInt(position), zoom_ratio),
                FMul(FMul(FHalf, FInt(size)), FDiv(FOne, zoom_ratio))))

\* lines 258-261:
\* std::round(position / zoom_ratio + 0.5f * size * (1.0f - 1.0f / zoom_ratio))
ConvertPosition(zoom_ratio, position, size) ==
  StdRound(FAdd(FDiv(FInt(position), zoom_ratio),
                FMul(FMul(FHalf, FInt(size)),
                     FSub(FOne, FDiv(FOne, zoom_ratio)))))

\* ConvertSize truncating, as the conversion to int32_t does without
\* std::round
ConvertSizeTruncating(zoom_ratio, size) ==
  (size * zoom_ratio[2]) \div zoom_ratio[1]

\* lines 262-263: std::round(size / zoom_ratio)
ConvertSize(zoom_ratio, size) == StdRound(FDiv(FInt(size), zoom_ratio))

\* CorrectIfZoomedIn with zoom_ratio > 1.0f for zoom_ratio >= 1.0f
CorrectIfAboveOne(zoom_ratio, rect, active_array_dimension) ==
  IF FLess(FOne, zoom_ratio)
    THEN CorrectRegionBoundary(rect, active_array_dimension.width,
                               active_array_dimension.height)
    ELSE rect

\* lines 265-269
CorrectIfZoomedIn(zoom_ratio, rect, active_array_dimension) ==
  IF ~FLess(zoom_ratio, FOne)
    THEN CorrectRegionBoundary(rect, active_array_dimension.width,
                               active_array_dimension.height)
    ELSE rect

\* a rectangle is <<left, top, width, height>>
ConvertZoomRatio(zoom_ratio, rect, active_array_dimension) ==
  CorrectIfZoomedIn(
    zoom_ratio,
    << ConvertPosition(zoom_ratio, rect[1], active_array_dimension.width),
       ConvertPosition(zoom_ratio, rect[2], active_array_dimension.height),
       ConvertSize(zoom_ratio, rect[3]),
       ConvertSize(zoom_ratio, rect[4]) >>,
    active_array_dimension)

\* utils::RevertZoomRatio, the inverse of the formula of ConvertZoomRatio:
\* std::round((position - 0.5f * size * (1.0f - 1.0f / zoom_ratio)) * zoom_ratio)
RevertPosition(zoom_ratio, position, size) ==
  StdRound(FMul(FSub(FInt(position),
                     FMul(FMul(FHalf, FInt(size)),
                          FSub(FOne, FDiv(FOne, zoom_ratio)))),
                zoom_ratio))

\* std::round(size * zoom_ratio)
RevertSize(zoom_ratio, size) == StdRound(FMul(FInt(size), zoom_ratio))

\* utils::RevertZoomRatio on a rectangle; no boundary correction
RevertZoomRatio(zoom_ratio, rect, active_array_dimension) ==
  << RevertPosition(zoom_ratio, rect[1], active_array_dimension.width),
     RevertPosition(zoom_ratio, rect[2], active_array_dimension.height),
     RevertSize(zoom_ratio, rect[3]),
     RevertSize(zoom_ratio, rect[4]) >>

\* utils::RevertZoomRatio on a point <<x, y>>
RevertZoomRatioPoint(zoom_ratio, point, active_array_dimension) ==
  << RevertPosition(zoom_ratio, point[1], active_array_dimension.width),
     RevertPosition(zoom_ratio, point[2], active_array_dimension.height) >>

\* lines 173-179 and 220-226: the direction of the transform
TransformRect(zoom_ratio, rect, active_array_dimension, is_request) ==
  IF is_request
    THEN ConvertZoomRatio(zoom_ratio, rect, active_array_dimension)
    ELSE RevertZoomRatio(zoom_ratio, rect, active_array_dimension)

\* lines 215-218 and 298-301: <<left, top, right, bottom>>, bounds
\* inclusive, to <<left, top, width, height>>
FromBounds(r) == <<r[1], r[2], r[3] - r[1] + 1, r[4] - r[2] + 1>>

\* lines 228-231 and 306-309: back to inclusive bounds
ToBounds(rect) == <<rect[1], rect[2], rect[1] + rect[3] - 1, rect[2] + rect[4] - 1>>

---------------------------------------------------------------------------
\* the metadata store

\* HalCameraMetadata::Get: the entry of the tag, <<>> when the status is not OK
Get(metadata, tag) == metadata[tag]
IsOK(entry) == Len(entry) > 0

\* HalCameraMetadata::Set: the write fails for the tags of set_fails and
\* leaves the metadata as it was
Set(metadata, tag, data) ==
  IF tag \in metadata.set_fails
    THEN metadata
    ELSE [metadata EXCEPT ![tag] = <<data>>]

---------------------------------------------------------------------------
\* the field updates

\* UpdateCropRegion taking the request path whatever is_request says
UpdateCropRegionAlwaysConvert(metadata, zoom_ratio, active_array_dimension, is_request) ==
  LET entry == Get(metadata, "ANDROID_SCALER_CROP_REGION") IN
  IF ~IsOK(entry) \/ Len(entry[1]) = 0
    THEN metadata
    ELSE Set(metadata, "ANDROID_SCALER_CROP_REGION",
             ConvertZoomRatio(zoom_ratio,
                              <<entry[1][1], entry[1][2], entry[1][3], entry[1][4]>>,
                              active_array_dimension))

UpdateCropRegion(metadata, zoom_ratio, active_array_dimension, is_request) ==
  LET entry == Get(metadata, "ANDROID_SCALER_CROP_REGION") IN
  IF ~IsOK(entry) \/ Len(entry[1]) = 0
    THEN metadata
    ELSE Set(metadata, "ANDROID_SCALER_CROP_REGION",
             TransformRect(zoom_ratio,
                           <<entry[1][1], entry[1][2], entry[1][3], entry[1][4]>>,
                           active_array_dimension, is_request))

\* lines 214-238: one WeightedRect <<left, top, right, bottom, weight>>
UpdateWeightedRect(region, zoom_ratio, active_array_dimension, is_request) ==
  ToBounds(TransformRect(zoom_ratio, FromBounds(region),
                         active_array_dimension, is_request))
  \o <<region[5]>>

Update3ARegion(metadata, zoom_ratio, tag_id, active_array_dimension, is_request) ==
  LET entry == Get(metadata, tag_id) IN
  IF ~IsOK(entry) \/ Len(entry[1]) = 0
    THEN metadata
    ELSE Set(metadata, tag_id,
             [i \in 1..Len(entry[1]) |->
                UpdateWeightedRect(entry[1][i], zoom_ratio,
                                   active_array_dimension, is_request)])

\* lines 297-316: one Rect <<left, top, right, bottom>>
UpdateFaceRect(face_rect, zoom_ratio, active_array_dimension) ==
  ToBounds(RevertZoomRatio(zoom_ratio, FromBounds(face_rect),
                           active_array_dimension))

UpdateFaceRectangles(metadata, zoom_ratio, active_array_dimension) ==
  LET entry == Get(metadata, "ANDROID_STATISTICS_FACE_RECTANGLES") IN
  IF ~IsOK(entry) \/ Len(entry[1]) <= 0
    THEN metadata
    ELSE Set(metadata, "ANDROID_STATISTICS_FACE_RECTANGLES",
             [i \in 1..Len(entry[1]) |->
                UpdateFaceRect(entry[1][i], zoom_ratio, active_array_dimension)])

\* lines 351-376: the three points <<x0, y0, x1, y1, x2, y2>> of one face
UpdateLandmark(points, zoom_ratio, active_array_dimension) ==
  RevertZoomRatioPoint(zoom_ratio, <<points[1], points[2]>>, active_array_dimension)
  \o RevertZoomRatioPoint(zoom_ratio, <<points[3], points[4]>>, active_array_dimension)
  \o RevertZoomRatioPoint(zoom_ratio, <<points[5], points[6]>>, active_array_dimension)

UpdateFaceLandmarks(metadata, zoom_ratio, active_array_dimension) ==
  LET entry == Get(metadata, "ANDROID_STATISTICS_FACE_LANDMARKS") IN
  IF ~IsOK(entry) \/ Len(entry[1]) <= 0
    THEN metadata
    ELSE Set(metadata, "ANDROID_STATISTICS_FACE_LANDMARKS",
             [i \in 1..Len(entry[1]) |->
                UpdateLandmark(entry[1][i], zoom_ratio, active_array_dimension)])

---------------------------------------------------------------------------
\* ApplyZoomRatio

\* ClampZoomRatio without the upper bound of lines 117-120
ClampZoomRatioNoUpper(zoom_ratio) ==
  IF FLess(zoom_ratio, zoom_ratio_range_.min)
    THEN zoom_ratio_range_.min
    ELSE zoom_ratio

\* lines 113-121
ClampZoomRatio(zoom_ratio) ==
  IF FLess(zoom_ratio, zoom_ratio_range_.min)
    THEN zoom_ratio_range_.min
    ELSE IF FLess(zoom_ratio_range_.max, zoom_ratio)
           THEN zoom_ratio_range_.max
           ELSE zoom_ratio

\* one call made by ApplyZoomRatio, with the arguments it passes
Call(fn, tag, zoom_ratio, active_array_dimension) ==
  [fn |-> fn, tag |-> tag, zoom_ratio |-> zoom_ratio,
   dim |-> active_array_dimension]

\* lines 123-129: the region updates, in the order of the source
RegionCalls(zoom_ratio, active_array_dimension) ==
  << Call("UpdateCropRegion", "ANDROID_SCALER_CROP_REGION",
          zoom_ratio, active_array_dimension),
     Call("Update3ARegion", "ANDROID_CONTROL_AE_REGIONS",
          zoom_ratio, active_array_dimension),
     Call("Update3ARegion", "ANDROID_CONTROL_AF_REGIONS",
          zoom_ratio, active_array_dimension),
     Call("Update3ARegion", "ANDROID_CONTROL_AWB_REGIONS",
          zoom_ratio, active_array_dimension) >>

\* FaceCalls with the landmarks updated in mode SIMPLE too
FaceCallsLandmarksAlways(metadata, zoom_ratio, active_array_dimension) ==
  LET entry == Get(metadata, "ANDROID_STATISTICS_FACE_DETECT_MODE") IN
  IF ~IsOK(entry) \/ entry[1] \notin {"FULL", "SIMPLE"}
    THEN <<>>
    ELSE << Call("UpdateFaceLandmarks", "ANDROID_STATISTICS_FACE_LANDMARKS",
                 zoom_ratio, active_array_dimension),
            Call("UpdateFaceRectangles", "ANDROID_STATISTICS_FACE_RECTANGLES",
                 zoom_ratio, active_array_dimension) >>

\* lines 131-150: the face updates the face detection mode selects
FaceCalls(metadata, zoom_ratio, active_array_dimension) ==
  LET entry == Get(metadata, "ANDROID_STATISTICS_FACE_DETECT_MODE") IN
  IF ~IsOK(entry)
    THEN <<>>
    ELSE CASE entry[1] = "FULL" ->
                << Call("UpdateFaceLandmarks", "ANDROID_STATISTICS_FACE_LANDMARKS",
                        zoom_ratio, active_array_dimension),
                   Call("UpdateFaceRectangles", "ANDROID_STATISTICS_FACE_RECTANGLES",
                        zoom_ratio, active_array_dimension) >>
           [] entry[1] = "SIMPLE" ->
                << Call("UpdateFaceRectangles", "ANDROID_STATISTICS_FACE_RECTANGLES",
                        zoom_ratio, active_array_dimension) >>
           [] OTHER -> <<>>

\* the effect of one call on the metadata
Invoke(metadata, call, is_request) ==
  CASE call.fn = "UpdateCropRegion" ->
         UpdateCropRegion(metadata, call.zoom_ratio, call.dim, is_request)
    [] call.fn = "Update3ARegion" ->
         Update3ARegion(metadata, call.zoom_ratio, call.tag, call.dim, is_request)
    [] call.fn = "UpdateFaceLandmarks" ->
         UpdateFaceLandmarks(metadata, call.zoom_ratio, call.dim)
    [] call.fn = "UpdateFaceRectangles" ->
         UpdateFaceRectangles(metadata, call.zoom_ratio, call.dim)

\* RunCalls giving up at the first call that leaves the metadata as it was
RECURSIVE RunCallsUntilSkipped(_, _, _)
RunCallsUntilSkipped(metadata, todo, is_request) ==
  IF todo = <<>> \/ Invoke(metadata, Head(todo), is_request) = metadata
    THEN metadata
    ELSE RunCallsUntilSkipped(Invoke(metadata, Head(todo), is_request),
                              Tail(todo), is_request)

\* the calls are made one after the other, whatever each one did: none of
\* them returns a status
RECURSIVE RunCalls(_, _, _)
RunCalls(metadata, todo, is_request) ==
  IF todo = <<>>
    THEN metadata
    ELSE RunCalls(Invoke(metadata, Head(todo), is_request), Tail(todo), is_request)

\* A progress of ApplyZoomRatio is the metadata so far and the calls made
\* so far; Made is the progress after the calls of todo.
Made(progress, todo, is_request) ==
  [metadata |-> RunCalls(progress.metadata, todo, is_request),
   calls |-> progress.calls \o todo]

\* lines 131-150
WithFaces(progress, zoom_ratio, active_array_dimension, is_request) ==
  IF is_request
    THEN progress
    ELSE Made(progress,
              FaceCalls(progress.metadata, zoom_ratio, active_array_dimension),
              is_request)

\* lines 123-150, with the clamped zoom ratio
ApplyClamped(metadata, zoom_ratio, active_array_dimension, is_request) ==
  WithFaces(Made([metadata |-> metadata, calls |-> <<>>],
                 RegionCalls(zoom_ratio, active_array_dimension), is_request),
            zoom_ratio, active_array_dimension, is_request)

\* ApplyZoomRatio taking a missing zoom ratio for 1.0
ApplyZoomRatioDefaultOne(metadata, active_array_dimension, is_request) ==
  LET entry == Get(metadata, "ANDROID_CONTROL_ZOOM_RATIO") IN
  ApplyClamped(metadata,
               ClampZoomRatio(IF IsOK(entry) THEN entry[1] ELSE FOne),
               active_array_dimension, is_request)

\* The metadata after ApplyZoomRatio and the calls it made.
ApplyZoomRatio(metadata, active_array_dimension, is_request) ==
  LET entry == Get(metadata, "ANDROID_CONTROL_ZOOM_RATIO") IN
  IF ~IsOK(entry)
    THEN [metadata |-> metadata, calls |-> <<>>]
    ELSE ApplyClamped(metadata, ClampZoomRatio(entry[1]),
                      active_array_dimension, is_request)

---------------------------------------------------------------------------
\* UpdateCaptureRequest and UpdateCaptureResult

\* the calls of one camera's ApplyZoomRatio, each with the camera it was
\* made for: <<>> is the logical camera, <<id>> a physical camera
OfCamera(cam, made) == [i \in 1..Len(made) |-> [cam |-> cam, call |-> made[i]]]

\* the metadata pointer and the calls of one camera after ApplyZoomRatio
Applied(cam, progress) ==
  [metadata |-> <<progress.metadata>>, calls |-> OfCamera(cam, progress.calls)]

\* ApplyPhysical with the logical camera's active array
ApplyPhysicalLogicalDimension(camera_id, metadata, is_request) ==
  IF metadata = <<>>
    THEN [metadata |-> metadata, calls |-> <<>>]
    ELSE IF camera_id \notin DOMAIN physical_cam_active_array_dimension_
           THEN [metadata |-> metadata, calls |-> <<>>]
           ELSE Applied(<<camera_id>>,
                        ApplyZoomRatio(metadata[1], active_array_dimension_,
                                       is_request))

\* lines 51-62 and 82-93: one entry of the physical metadata map
ApplyPhysical(camera_id, metadata, is_request) ==
  IF metadata = <<>>
    THEN [metadata |-> metadata, calls |-> <<>>]
    ELSE IF camera_id \notin DOMAIN physical_cam_active_array_dimension_
           THEN [metadata |-> metadata, calls |-> <<>>]
           ELSE Applied(<<camera_id>>,
                        ApplyZoomRatio(metadata[1],
                                       physical_cam_active_array_dimension_[camera_id],
                                       is_request))

\* lines 47-49 and 77-80: the logical camera's metadata
ApplyLogical(metadata, is_request) ==
  IF metadata = <<>>
    THEN [metadata |-> metadata, calls |-> <<>>]
    ELSE Applied(<<>>, ApplyZoomRatio(metadata[1], active_array_dimension_,
                                      is_request))

\* the calls made over the physical metadata map, by ascending camera id
RECURSIVE PhysicalCalls(_, _)
PhysicalCalls(applied, ids) ==
  IF ids = {}
    THEN <<>>
    ELSE LET id == CHOOSE i \in ids : \A j \in ids : i <= j
         IN applied[id].calls \o PhysicalCalls(applied, ids \ {id})

\* the request or result, and the calls made, once every camera is done
Assemble(logical, applied) ==
  [bundle |-> << [metadata |-> logical.metadata,
                  physical |-> [id \in DOMAIN applied |-> applied[id].metadata]] >>,
   calls |-> logical.calls \o PhysicalCalls(applied, DOMAIN applied)]

\* The request or result after UpdateCaptureRequest (is_request) or
\* UpdateCaptureResult (~is_request), and the calls made.
UpdateCapture(object, is_request) ==
  IF object = <<>>
    THEN [bundle |-> object, calls |-> <<>>]
    ELSE IF ~is_zoom_ratio_supported_
      THEN [bundle |-> object, calls |-> <<>>]
      ELSE Assemble(ApplyLogical(object[1].metadata, is_request),
                    [id \in DOMAIN object[1].physical |->
                       ApplyPhysical(id, object[1].physical[id], is_request)])

---------------------------------------------------------------------------
\* the values the model draws

Dim(w, h) == [width |-> w, height |-> h]
Range(lo, hi) == [min |-> lo, max |-> hi]

\* InitParams: the logical camera's active array, the active arrays of the
\* physical cameras 0 and 1 (camera 2 has none) and the zoom ratio range
PhysicalDims == (0 :> Dim(5, 3)) @@ (1 :> Dim(16, 8))
Params ==
  {[active_array_dimension |-> d,
    physical_cam_active_array_dimension |-> PhysicalDims,
    zoom_ratio_range |-> r] :
     d \in {Dim(5, 3), Dim(8, 6), Dim(4000, 3000)},
     r \in {Range(<<1, 1>>, <<4, 1>>), Range(<<1, 2>>, <<2, 1>>)}}

EmptyMetadata ==
  [ANDROID_CONTROL_ZOOM_RATIO |-> <<>>,
   ANDROID_SCALER_CROP_REGION |-> <<>>,
   ANDROID_CONTROL_AE_REGIONS |-> <<>>,
   ANDROID_CONTROL_AF_REGIONS |-> <<>>,
   ANDROID_CONTROL_AWB_REGIONS |-> <<>>,
   ANDROID_STATISTICS_FACE_DETECT_MODE |-> <<>>,
   ANDROID_STATISTICS_FACE_RECTANGLES |-> <<>>,
   ANDROID_STATISTICS_FACE_LANDMARKS |-> <<>>,
   set_fails |-> {}]

NoPhysical == [id \in {} |-> <<>>]
Bundle(metadata, physical) == << [metadata |-> metadata, physical |-> physical] >>

\* an entry that is missing, or holds one of the given payloads
Entries(payloads) == {<<>>} \cup {<<d>> : d \in payloads}

ZoomEntries == Entries({<<1, 4>>, <<1, 1>>, <<2, 1>>, <<8, 1>>})
RegionEntries == Entries({<<>>, << <<1, 1, 4, 3, 7>> >>})

\* bundles whose logical metadata varies in the region fields
RegionBundles ==
  {Bundle(<< [EmptyMetadata EXCEPT
                !.ANDROID_CONTROL_ZOOM_RATIO = z,
                !.ANDROID_SCALER_CROP_REGION = c,
                !.ANDROID_CONTROL_AE_REGIONS = ae,
                !.ANDROID_CONTROL_AF_REGIONS = af,
                !.ANDROID_CONTROL_AWB_REGIONS = awb,
                !.set_fails = f] >>, NoPhysical) :
     z \in ZoomEntries,
     c \in Entries({<<>>, <<0, 0, 5, 3>>, <<0, 0, 8, 6>>, <<0, 0, 4000, 3000>>,
                     <<2, 1, 4, 3>>}),
     ae \in RegionEntries, af \in RegionEntries, awb \in RegionEntries,
     f \in {{}, {"ANDROID_SCALER_CROP_REGION"}, {"ANDROID_CONTROL_AE_REGIONS"},
            {"ANDROID_CONTROL_AF_REGIONS"}, {"ANDROID_CONTROL_AWB_REGIONS"}}}

\* bundles whose logical metadata varies in the face fields
FaceBundles ==
  {Bundle(<< [EmptyMetadata EXCEPT
                !.ANDROID_CONTROL_ZOOM_RATIO = z,
                !.ANDROID_SCALER_CROP_REGION = c,
                !.ANDROID_STATISTICS_FACE_DETECT_MODE = mode,
                !.ANDROID_STATISTICS_FACE_RECTANGLES = rects,
                !.ANDROID_STATISTICS_FACE_LANDMARKS = marks,
                !.set_fails = f] >>, NoPhysical) :
     z \in ZoomEntries,
     c \in Entries({<<2, 1, 4, 3>>}),
     mode \in Entries({"OFF", "SIMPLE", "FULL"}),
     rects \in Entries({<<>>, << <<2, 1, 5, 4>>, <<4, 3, 4, 3>> >>}),
     marks \in Entries({<<>>, << <<2000, 1500, 2010, 1500, 2005, 1510>> >>}),
     f \in {{}, {"ANDROID_STATISTICS_FACE_RECTANGLES"},
            {"ANDROID_STATISTICS_FACE_LANDMARKS"}}}

\* bundles with physical camera metadata: cameras 0 and 1 are configured,
\* camera 2 is not
CameraMetadata ==
  { [EmptyMetadata EXCEPT
       !.ANDROID_SCALER_CROP_REGION = << <<0, 0, 16, 8>> >>,
       !.ANDROID_CONTROL_AF_REGIONS = << << <<1, 1, 4, 3, 7>> >> >>,
       !.ANDROID_STATISTICS_FACE_DETECT_MODE = <<"FULL">>,
       !.ANDROID_STATISTICS_FACE_RECTANGLES = << << <<2, 1, 5, 4>> >> >>],
    [EmptyMetadata EXCEPT
       !.ANDROID_CONTROL_ZOOM_RATIO = << <<2, 1>> >>,
       !.ANDROID_SCALER_CROP_REGION = << <<0, 0, 16, 8>> >>,
       !.ANDROID_CONTROL_AE_REGIONS = << << <<1, 1, 4, 3, 7>> >> >>,
       !.ANDROID_STATISTICS_FACE_DETECT_MODE = <<"SIMPLE">>,
       !.ANDROID_STATISTICS_FACE_RECTANGLES = << << <<2, 1, 5, 4>> >> >>],
    [EmptyMetadata EXCEPT
       !.ANDROID_CONTROL_ZOOM_RATIO = << <<8, 1>> >>,
       !.ANDROID_SCALER_CROP_REGION = << <<1, 1, 3, 2>> >>,
       !.ANDROID_STATISTICS_FACE_DETECT_MODE = <<"FULL">>,
       !.ANDROID_STATISTICS_FACE_RECTANGLES = << << <<2, 1, 5, 4>> >> >>,
       !.ANDROID_STATISTICS_FACE_LANDMARKS =
          << << <<2000, 1500, 2010, 1500, 2005, 1510>> >> >>] }

PhysicalMaps ==
  UNION {[ids -> Entries(CameraMetadata)] : ids \in SUBSET {0, 1, 2}}

CameraBundles ==
  {Bundle(m, p) : m \in Entries(CameraMetadata), p \in PhysicalMaps}

\* the rectangles of the geometry specification: at least one pixel wide
\* and high, starting inside the array or one pixel outside it, ending
\* inside or outside it
Rects ==
  {<<l, t, w, h>> : l \in (-1)..MaxCoord, t \in (-1)..MaxCoord,
                    w \in 1..MaxSize, h \in 1..MaxSize}

\* bundles that carry one rectangle as crop region, as AE region and as
\* face rectangle
GeometryBundles ==
  {Bundle(<< [EmptyMetadata EXCEPT
                !.ANDROID_CONTROL_ZOOM_RATIO = << z >>,
                !.ANDROID_SCALER_CROP_REGION = << r >>,
                !.ANDROID_CONTROL_AE_REGIONS =
                   << << <<r[1], r[2], r[1] + r[3] - 1, r[2] + r[4] - 1, 7>> >> >>,
                !.ANDROID_STATISTICS_FACE_DETECT_MODE = <<"SIMPLE">>,
                !.ANDROID_STATISTICS_FACE_RECTANGLES =
                   << << <<r[1], r[2], r[1] + r[3] - 1, r[2] + r[4] - 1>> >> >>] >>,
          NoPhysical) :
     z \in {<<1, 4>>, <<1, 2>>, <<1, 1>>, <<2, 1>>, <<4, 1>>}, r \in Rects}

GeometryParams ==
  {[active_array_dimension |-> d,
    physical_cam_active_array_dimension |-> PhysicalDims,
    zoom_ratio_range |-> Range(<<1, 4>>, <<4, 1>>)] :
     d \in {Dim(5, 3), Dim(8, 6)}}

---------------------------------------------------------------------------
\* the state machine

\* a mapper on which Initialize has not run: zoom ratio is not supported
Init ==
  /\ is_zoom_ratio_supported_ = FALSE
  /\ active_array_dimension_ = Dim(0, 0)
  /\ physical_cam_active_array_dimension_ = NoPhysical
  /\ zoom_ratio_range_ = Range(<<1, 1>>, <<1, 1>>)
  /\ bundle \in RegionBundles \cup FaceBundles \cup CameraBundles \cup {<<>>}
  /\ original = bundle
  /\ submitted = bundle
  /\ ops = <<>>
  /\ calls = <<>>

\* Initialize runs once, before any request or result is processed
Initialize(params) ==
  /\ ~is_zoom_ratio_supported_
  /\ ops = <<>>
  /\ active_array_dimension_' = params.active_array_dimension
  /\ physical_cam_active_array_dimension_' =
       params.physical_cam_active_array_dimension
  /\ zoom_ratio_range_' = params.zoom_ratio_range
  /\ is_zoom_ratio_supported_' = TRUE
  /\ UNCHANGED <<bundle, original, submitted, ops, calls>>

\* a request passes UpdateCaptureRequest once, before anything else
UpdateCaptureRequest ==
  /\ ops = <<>>
  /\ \E r \in {UpdateCapture(bundle, TRUE)} :
       /\ bundle' = r.bundle
       /\ calls' = r.calls
  /\ submitted' = bundle
  /\ ops' = Append(ops, "request")
  /\ UNCHANGED <<mapper_vars, original>>

\* a result passes UpdateCaptureResult once; it may carry the metadata of
\* the request it answers
UpdateCaptureResult ==
  /\ "result" \notin {ops[i] : i \in 1..Len(ops)}
  /\ \E r \in {UpdateCapture(bundle, FALSE)} :
       /\ bundle' = r.bundle
       /\ calls' = r.calls
  /\ submitted' = bundle
  /\ ops' = Append(ops, "result")
  /\ UNCHANGED <<mapper_vars, original>>

Next ==
  \/ \E params \in Params : Initialize(params)
  \/ UpdateCaptureRequest
  \/ UpdateCaptureResult

Spec == Init /\ [][Next]_vars

\* the geometry specification: an initialized mapper and one rectangle
InitGeometry ==
  /\ is_zoom_ratio_supported_ = TRUE
  /\ \E params \in GeometryParams :
       /\ active_array_dimension_ = params.active_array_dimension
       /\ physical_cam_active_array_dimension_ =
            params.physical_cam_active_array_dimension
       /\ zoom_ratio_range_ = params.zoom_ratio_range
  /\ bundle \in GeometryBundles
  /\ original = bundle
  /\ submitted = bundle
  /\ ops = <<>>
  /\ calls = <<>>

NextGeometry ==
  \/ UpdateCaptureRequest
  \/ UpdateCaptureResult

SpecGeometry == InitGeometry /\ [][NextGeometry]_vars

---------------------------------------------------------------------------
\* what the properties speak about

\* an Update call ran on an initialized mapper and was given a bundle
Processed == is_zoom_ratio_supported_ /\ ops # <<>> /\ submitted # <<>>
LastOp == ops[Len(ops)]
LastIsRequest == LastOp = "request"

\* the cameras of a bundle: <<>> is the logical one, <<id>> a physical one
Cameras(object) ==
  IF object = <<>>
    THEN {}
    ELSE {<<>>} \cup {<<id>> : id \in DOMAIN object[1].physical}

\* the metadata pointer of a camera in a bundle
Pointer(object, cam) ==
  IF cam = <<>> THEN object[1].metadata ELSE object[1].physical[cam[1]]

\* the cameras whose metadata the last Update call handed to ApplyZoomRatio
Configured(cam) ==
  cam = <<>> \/ cam[1] \in DOMAIN physical_cam_active_array_dimension_
Handled == {cam \in Cameras(submitted) :
              Pointer(submitted, cam) # <<>> /\ Configured(cam)}

\* those of them whose metadata carries a zoom ratio
Zoomed == {cam \in Handled :
             Pointer(submitted, cam)[1].ANDROID_CONTROL_ZOOM_RATIO # <<>>}

Before(cam) == Pointer(submitted, cam)[1]
After(cam) == Pointer(bundle, cam)[1]
Declared(cam) == Before(cam).ANDROID_CONTROL_ZOOM_RATIO[1]
DimensionOf(cam) ==
  IF cam = <<>>
    THEN active_array_dimension_
    ELSE physical_cam_active_array_dimension_[cam[1]]

\* the zoom ratio the specification asks to be used for a declared one
InRange(z) ==
  IF FLess(z, zoom_ratio_range_.min)
    THEN zoom_ratio_range_.min
    ELSE IF FLess(zoom_ratio_range_.max, z) THEN zoom_ratio_range_.max ELSE z

\* the calls of the last Update call made for a camera
CallsOf(cam) == SelectSeq(calls, LAMBDA c : c.cam = cam)

\* a field that is present, not empty and whose write succeeds
Writable(metadata, tag) ==
  /\ metadata[tag] # <<>>
  /\ metadata[tag][1] # <<>>
  /\ tag \notin metadata.set_fails

RegionTags == {"ANDROID_CONTROL_AE_REGIONS", "ANDROID_CONTROL_AF_REGIONS",
               "ANDROID_CONTROL_AWB_REGIONS"}

\* the crop region the specification asks for
ExpectedCrop(cam) ==
  TransformRect(InRange(Declared(cam)),
                Before(cam).ANDROID_SCALER_CROP_REGION[1],
                DimensionOf(cam), LastIsRequest)

\* the weighted regions the specification asks for
ExpectedRegions(cam, tag) ==
  [i \in 1..Len(Before(cam)[tag][1]) |->
     ToBounds(TransformRect(InRange(Declared(cam)),
                            FromBounds(Before(cam)[tag][1][i]),
                            DimensionOf(cam), LastIsRequest))
     \o <<Before(cam)[tag][1][i][5]>>]

---------------------------------------------------------------------------
\* C1: on an initialized mapper, every call that transforms a field of a
\* bundle is given a zoom ratio inside [zoom_ratio_range.min,
\* zoom_ratio_range.max]: min when the declared ratio is below min, max when
\* it is above max, the declared ratio otherwise. The first call (the crop
\* region) already gets the replaced value, and the crop region written
\* back is the one of the replaced value.
C1_ZoomRatioClamped ==
  Processed =>
    \A cam \in Zoomed :
      /\ Len(CallsOf(cam)) >= 4
      /\ CallsOf(cam)[1].call.fn = "UpdateCropRegion"
      /\ \A i \in 1..Len(CallsOf(cam)) :
           /\ ~FLess(CallsOf(cam)[i].call.zoom_ratio, zoom_ratio_range_.min)
           /\ ~FLess(zoom_ratio_range_.max, CallsOf(cam)[i].call.zoom_ratio)
           /\ FLess(Declared(cam), zoom_ratio_range_.min)
                => CallsOf(cam)[i].call.zoom_ratio = zoom_ratio_range_.min
           /\ FLess(zoom_ratio_range_.max, Declared(cam))
                => CallsOf(cam)[i].call.zoom_ratio = zoom_ratio_range_.max
           /\ (~FLess(Declared(cam), zoom_ratio_range_.min)
               /\ ~FLess(zoom_ratio_range_.max, Declared(cam)))
                => CallsOf(cam)[i].call.zoom_ratio = Declared(cam)
      /\ Writable(Before(cam), "ANDROID_SCALER_CROP_REGION")
           => After(cam).ANDROID_SCALER_CROP_REGION = <<ExpectedCrop(cam)>>

\* a request whose declared ratio is above max was processed and its crop
\* region rewritten
C1_Witness ==
  /\ Processed
  /\ LastIsRequest
  /\ <<>> \in Zoomed
  /\ FLess(zoom_ratio_range_.max, Declared(<<>>))
  /\ Writable(Before(<<>>), "ANDROID_SCALER_CROP_REGION")
  /\ After(<<>>).ANDROID_SCALER_CROP_REGION
       # Before(<<>>).ANDROID_SCALER_CROP_REGION

---------------------------------------------------------------------------
\* the face fields the specification asks for on the result path

FaceCallsOf(cam) ==
  SelectSeq(calls, LAMBDA c : c.cam = cam
                              /\ c.call.fn \in {"UpdateFaceLandmarks",
                                                "UpdateFaceRectangles"})
FaceCallNames(cam) == [i \in 1..Len(FaceCallsOf(cam)) |-> FaceCallsOf(cam)[i].call.fn]

ExpectedFaceRectangles(cam) ==
  IF Writable(Before(cam), "ANDROID_STATISTICS_FACE_RECTANGLES")
    THEN << [i \in 1..Len(Before(cam).ANDROID_STATISTICS_FACE_RECTANGLES[1]) |->
               ToBounds(RevertZoomRatio(
                 InRange(Declared(cam)),
                 FromBounds(Before(cam).ANDROID_STATISTICS_FACE_RECTANGLES[1][i]),
                 DimensionOf(cam)))] >>
    ELSE Before(cam).ANDROID_STATISTICS_FACE_RECTANGLES

ExpectedPoint(cam, points, k) ==
  RevertZoomRatioPoint(InRange(Declared(cam)), <<points[k], points[k + 1]>>,
                       DimensionOf(cam))

ExpectedFaceLandmarks(cam) ==
  IF Writable(Before(cam), "ANDROID_STATISTICS_FACE_LANDMARKS")
    THEN << [i \in 1..Len(Before(cam).ANDROID_STATISTICS_FACE_LANDMARKS[1]) |->
               ExpectedPoint(cam, Before(cam).ANDROID_STATISTICS_FACE_LANDMARKS[1][i], 1)
               \o ExpectedPoint(cam, Before(cam).ANDROID_STATISTICS_FACE_LANDMARKS[1][i], 3)
               \o ExpectedPoint(cam, Before(cam).ANDROID_STATISTICS_FACE_LANDMARKS[1][i], 5)] >>
    ELSE Before(cam).ANDROID_STATISTICS_FACE_LANDMARKS

FaceMode(cam) == Before(cam).ANDROID_STATISTICS_FACE_DETECT_MODE

\* C5: on the result path, for each metadata (logical or physical) that
\* carries a zoom ratio: in mode FULL the landmarks are reverted first and
\* the rectangles second; in mode SIMPLE only the rectangles are reverted and
\* the landmarks stay as they were; in any other mode, or without a mode,
\* neither field changes. (A field that is missing or empty, or whose write
\* fails, stays as it was.)
C5_FaceModeGating ==
  (Processed /\ ~LastIsRequest) =>
    \A cam \in Zoomed :
      /\ FaceMode(cam) = <<"FULL">> =>
           /\ FaceCallNames(cam) = <<"UpdateFaceLandmarks", "UpdateFaceRectangles">>
           /\ After(cam).ANDROID_STATISTICS_FACE_LANDMARKS = ExpectedFaceLandmarks(cam)
           /\ After(cam).ANDROID_STATISTICS_FACE_RECTANGLES = ExpectedFaceRectangles(cam)
      /\ FaceMode(cam) = <<"SIMPLE">> =>
           /\ FaceCallNames(cam) = <<"UpdateFaceRectangles">>
           /\ After(cam).ANDROID_STATISTICS_FACE_LANDMARKS
                = Before(cam).ANDROID_STATISTICS_FACE_LANDMARKS
           /\ After(cam).ANDROID_STATISTICS_FACE_RECTANGLES = ExpectedFaceRectangles(cam)
      /\ FaceMode(cam) \notin {<<"FULL">>, <<"SIMPLE">>} =>
           /\ FaceCallNames(cam) = <<>>
           /\ After(cam).ANDROID_STATISTICS_FACE_LANDMARKS
                = Before(cam).ANDROID_STATISTICS_FACE_LANDMARKS
           /\ After(cam).ANDROID_STATISTICS_FACE_RECTANGLES
                = Before(cam).ANDROID_STATISTICS_FACE_RECTANGLES

\* a result in mode SIMPLE with rectangles and landmarks: the rectangles
\* changed, the landmarks did not
C5_Witness ==
  /\ Processed
  /\ ~LastIsRequest
  /\ <<>> \in Zoomed
  /\ FaceMode(<<>>) = <<"SIMPLE">>
  /\ Writable(Before(<<>>), "ANDROID_STATISTICS_FACE_LANDMARKS")
  /\ Writable(Before(<<>>), "ANDROID_STATISTICS_FACE_RECTANGLES")
  /\ After(<<>>).ANDROID_STATISTICS_FACE_RECTANGLES
       # Before(<<>>).ANDROID_STATISTICS_FACE_RECTANGLES
  /\ After(<<>>).ANDROID_STATISTICS_FACE_LANDMARKS
       = Before(<<>>).ANDROID_STATISTICS_FACE_LANDMARKS

---------------------------------------------------------------------------
\* C6: every call made for a camera carries that camera's own active array
\* (the configured one of a physical camera, never the logical camera's), its
\* crop region is the one of that array, and a physical camera without a
\* configured array keeps its metadata while the others are processed.
C6_PhysicalCameraIsolation ==
  Processed =>
    /\ \A cam \in Zoomed :
         /\ \A i \in 1..Len(CallsOf(cam)) :
              CallsOf(cam)[i].call.dim = DimensionOf(cam)
         /\ Len(CallsOf(cam)) >= 4
         /\ Writable(Before(cam), "ANDROID_SCALER_CROP_REGION")
              => After(cam).ANDROID_SCALER_CROP_REGION = <<ExpectedCrop(cam)>>
    /\ \A cam \in Cameras(submitted) \ Handled :
         /\ Pointer(bundle, cam) = Pointer(submitted, cam)
         /\ CallsOf(cam) = <<>>

\* camera 2 has no active array and keeps its zoomed metadata, camera 1 is
\* transformed with its own array, which differs from the logical one
C6_Witness ==
  /\ Processed
  /\ {<<1>>, <<2>>} \subseteq Cameras(submitted)
  /\ Pointer(submitted, <<2>>) # <<>>
  /\ Pointer(submitted, <<2>>)[1].ANDROID_CONTROL_ZOOM_RATIO # <<>>
  /\ <<1>> \in Zoomed
  /\ After(<<1>>).ANDROID_SCALER_CROP_REGION
       # Before(<<1>>).ANDROID_SCALER_CROP_REGION
  /\ After(<<1>>).ANDROID_SCALER_CROP_REGION
       # << TransformRect(InRange(Declared(<<1>>)),
                          Before(<<1>>).ANDROID_SCALER_CROP_REGION[1],
                          active_array_dimension_, LastIsRequest) >>

---------------------------------------------------------------------------
\* C7: in a metadata that carries a zoom ratio, the crop region and each of
\* the AE, AF and AWB regions is transformed exactly when that field itself
\* is present, not empty and written successfully, whatever the state of the
\* other three fields; otherwise it stays as it was.
C7_FieldIndependence ==
  Processed =>
    \A cam \in Zoomed :
      /\ After(cam).ANDROID_SCALER_CROP_REGION
           = IF Writable(Before(cam), "ANDROID_SCALER_CROP_REGION")
               THEN <<ExpectedCrop(cam)>>
               ELSE Before(cam).ANDROID_SCALER_CROP_REGION
      /\ \A tag \in RegionTags :
           After(cam)[tag]
             = IF Writable(Before(cam), tag)
                 THEN <<ExpectedRegions(cam, tag)>>
                 ELSE Before(cam)[tag]

\* the AF regions are missing, the write of the AE regions fails, and the
\* crop region and the AWB regions are transformed all the same
C7_Witness ==
  /\ Processed
  /\ <<>> \in Zoomed
  /\ Before(<<>>).ANDROID_CONTROL_AF_REGIONS = <<>>
  /\ Before(<<>>).ANDROID_CONTROL_AE_REGIONS # <<>>
  /\ "ANDROID_CONTROL_AE_REGIONS" \in Before(<<>>).set_fails
  /\ After(<<>>).ANDROID_SCALER_CROP_REGION
       # Before(<<>>).ANDROID_SCALER_CROP_REGION
  /\ After(<<>>).ANDROID_CONTROL_AWB_REGIONS
       # Before(<<>>).ANDROID_CONTROL_AWB_REGIONS

---------------------------------------------------------------------------
\* round(a / b) for a >= 0 and b > 0, in integers
RoundedQuotient(a, b) == (2 * a + b) \div (2 * b)

\* the centred crop of a full active array w x h at the zoom ratio z >= 1:
\* <<round(w/2 * (1 - 1/z)), round(h/2 * (1 - 1/z)), round(w/z), round(h/z)>>
CentredCrop(z, w, h) ==
  << RoundedQuotient(w * (z[1] - z[2]), 2 * z[1]),
     RoundedQuotient(h * (z[1] - z[2]), 2 * z[1]),
     RoundedQuotient(w * z[2], z[1]),
     RoundedQuotient(h * z[2], z[1]) >>

\* the request path turned a crop region that is the camera's full active
\* array into something, at a zoom ratio of at least 1
FullArrayRequest(cam) ==
  /\ Writable(Before(cam), "ANDROID_SCALER_CROP_REGION")
  /\ Before(cam).ANDROID_SCALER_CROP_REGION
       = << <<0, 0, DimensionOf(cam).width, DimensionOf(cam).height>> >>
  /\ ~FLess(InRange(Declared(cam)), FOne)

\* C8: on the request path a crop region equal to the full active array
\* w x h, at a zoom ratio z >= 1 within the range, is written back as the
\* centred crop <<round(w/2 * (1 - 1/z)), round(h/2 * (1 - 1/z)), round(w/z),
\* round(h/z)>>; 4000 x 3000 at 2.0 gives <<1000, 750, 2000, 1500>>.
C8_FullArrayCrop ==
  (Processed /\ LastIsRequest) =>
    \A cam \in Zoomed :
      FullArrayRequest(cam) =>
        /\ After(cam).ANDROID_SCALER_CROP_REGION
             = << CentredCrop(InRange(Declared(cam)), DimensionOf(cam).width,
                              DimensionOf(cam).height) >>
        /\ (DimensionOf(cam) = Dim(4000, 3000) /\ InRange(Declared(cam)) = <<2, 1>>)
             => After(cam).ANDROID_SCALER_CROP_REGION
                  = << <<1000, 750, 2000, 1500>> >>

\* the example of the specification: 4000 x 3000 at 2.0
C8_Witness ==
  /\ Processed
  /\ LastIsRequest
  /\ <<>> \in Zoomed
  /\ FullArrayRequest(<<>>)
  /\ active_array_dimension_ = Dim(4000, 3000)
  /\ Declared(<<>>) = <<2, 1>>
  /\ After(<<>>).ANDROID_SCALER_CROP_REGION = << <<1000, 750, 2000, 1500>> >>

---------------------------------------------------------------------------
\* C10: a metadata without a zoom ratio comes back from UpdateCaptureRequest
\* and UpdateCaptureResult exactly as it went in, whatever its face detection
\* mode, and no call is made for it; the other metadata of the same bundle
\* that carry a zoom ratio get their calls and their crop region.
C10_MissingZoomRatioSkipsBundle ==
  Processed =>
    /\ \A cam \in Handled \ Zoomed :
         /\ After(cam) = Before(cam)
         /\ CallsOf(cam) = <<>>
    /\ \A cam \in Zoomed :
         /\ Len(CallsOf(cam)) >= 4
         /\ Writable(Before(cam), "ANDROID_SCALER_CROP_REGION")
              => After(cam).ANDROID_SCALER_CROP_REGION = <<ExpectedCrop(cam)>>

\* a result whose logical metadata has mode FULL, face rectangles and a crop
\* region but no zoom ratio, next to a physical camera whose crop region
\* changed
C10_Witness ==
  /\ Processed
  /\ ~LastIsRequest
  /\ <<>> \in Handled \ Zoomed
  /\ FaceMode(<<>>) = <<"FULL">>
  /\ Before(<<>>).ANDROID_STATISTICS_FACE_RECTANGLES # <<>>
  /\ Before(<<>>).ANDROID_SCALER_CROP_REGION # <<>>
  /\ <<1>> \in Zoomed
  /\ After(<<1>>).ANDROID_SCALER_CROP_REGION
       # Before(<<1>>).ANDROID_SCALER_CROP_REGION

---------------------------------------------------------------------------
\* the geometry properties, on the one rectangle of a geometry bundle

\* the crop region of the logical metadata of a bundle
Crop(object) == object[1].metadata[1].ANDROID_SCALER_CROP_REGION[1]
\* its AE region and its face rectangle, <<left, top, right, bottom, ...>>
Region(object) == object[1].metadata[1].ANDROID_CONTROL_AE_REGIONS[1][1]
Face(object) == object[1].metadata[1].ANDROID_STATISTICS_FACE_RECTANGLES[1][1]
\* the zoom ratio the bundle declares (the range of the geometry
\* specification holds every ratio it draws)
Ratio == original[1].metadata[1].ANDROID_CONTROL_ZOOM_RATIO[1]

\* a rectangle <<left, top, width, height>> lies within the active array
Within(rect, dim) ==
  /\ rect[1] >= 0
  /\ rect[2] >= 0
  /\ rect[1] + rect[3] <= dim.width
  /\ rect[2] + rect[4] <= dim.height

Distance(a, b) == IF a >= b THEN a - b ELSE b - a

\* two rectangles differ by at most n in each of left, top, width, height
Near(a, b, n) == \A k \in 1..4 : Distance(a[k], b[k]) <= n

---------------------------------------------------------------------------
\* C3: at a zoom ratio of at least 1 the rectangle ConvertZoomRatio returns
\* on the request path, for any input rectangle (inside the active array or
\* not), has left >= 0, top >= 0, left + width <= width of the array and
\* top + height <= height of the array; so has the AE region, in inclusive
\* bounds.
C3_ForwardStaysInActiveArray ==
  (ops = <<"request">> /\ ~FLess(Ratio, FOne)) =>
    /\ Within(Crop(bundle), active_array_dimension_)
    /\ Within(FromBounds(Region(bundle)), active_array_dimension_)

\* a rectangle that starts left of and above the array and is higher than
\* it, at the zoom ratio 1: it is brought to the corner and cut to the
\* height of the array
C3_Witness ==
  /\ ops = <<"request">>
  /\ Ratio = FOne
  /\ Crop(original)[1] < 0
  /\ Crop(original)[2] < 0
  /\ Crop(original)[4] > active_array_dimension_.height
  /\ Crop(bundle)[1] = 0
  /\ Crop(bundle)[2] = 0
  /\ Crop(bundle)[4] = active_array_dimension_.height

---------------------------------------------------------------------------
---------------------------------------------------------------------------
\* C9: a rectangle of width >= 1 and height >= 1, transformed forward or
\* backward at a zoom ratio in the range, is written back with width >= 1
\* and height >= 1: the crop region, the AE region and the face rectangle
\* (right >= left and bottom >= top). Stated for the rectangles that lie
\* within the active array.
C9_NonDegenerateOutput ==
  (Len(ops) = 1 /\ Crop(original)[3] >= 1 /\ Crop(original)[4] >= 1
   /\ Within(Crop(original), active_array_dimension_)) =>
    /\ Crop(bundle)[3] >= 1
    /\ Crop(bundle)[4] >= 1
    /\ Region(bundle)[3] >= Region(bundle)[1]
    /\ Region(bundle)[4] >= Region(bundle)[2]
    /\ Face(bundle)[3] >= Face(bundle)[1]
    /\ Face(bundle)[4] >= Face(bundle)[2]

====
